---- MODULE Spec2Model ----
(***************************************************************************)
(* Ring election simulator (src/src/main.rs).                              *)
(*                                                                         *)
(* RING_SIZE member threads and one driver thread (sim_election) talk over *)
(* crossbeam bounded(1) channels: one inbox per member, one for the        *)
(* driver.  A send blocks while the destination buffer is full, so every   *)
(* send is a step of its own: a member that has decided to send sits at    *)
(* pc = "send" with the pending message in out[m] until the buffer has     *)
(* room.  What the code does after a send (returning into the run loop or  *)
(* into the probe loop, storing coord_id, leaving the loop) is the         *)
(* continuation out[m].k.                                                  *)
(*                                                                         *)
(* RingMember::send (the probe) handles messages reentrantly, so a member  *)
(* carries a stack stk[m] of the probes it is inside, innermost last.      *)
(***************************************************************************)
EXTENDS Integers, Sequences, FiniteSets, TLC

\* const RING_SIZE: usize = 3
RING_SIZE == 3

\* Longest scenario (SimSeq.toggles) the driver is given.
MaxToggles == 4

Members == 0 .. (RING_SIZE - 1)

\* Address of the driver's channel (sim_s) in a pending send.
SIM == RING_SIZE

VARIABLES
    sim_active,   \* RingMember.sim_active, per member
    coord_id,     \* RingMember.coord_id, per member
    chan,         \* chans[i]: the bounded(1) inbox of member i
    sim_chan,     \* (sim_s, sim_r): the bounded(1) inbox of the driver
    pc,           \* per member: "recv", "send", "store", "done", "failed"
    out,          \* per member: the send it is blocked in, with its continuation
    stk,          \* per member: the probes (calls of send) in progress
    seq,          \* SimSeq.toggles, the scenario
    dpc,          \* position of sim_election
    di,           \* index of the current scenario entry
    dcoord,       \* coord_id of sim_election
    ended,        \* per member: how many times it has relayed SimEnd
    elections,    \* how many empty ballots the driver has sent
    sender        \* per inbox: the thread whose send filled it last

vars == <<sim_active, coord_id, chan, sim_chan, pc, out, stk,
          seq, dpc, di, dcoord, ended, elections, sender>>

driverVars == <<seq, dpc, di, dcoord, elections>>

(***************************************************************************)
(* enum Msg, enum SimMsg                                                   *)
(***************************************************************************)
Ping(s) == [type |-> "Ping", s_id |-> s]
Pong == [type |-> "Pong"]
Election(b) == [type |-> "Election", body |-> b]
ElectionResult(i) == [type |-> "ElectionResult", id |-> i]
SimToggle(i) == [type |-> "SimToggle", id |-> i]
SimEnd == [type |-> "SimEnd"]

\* Msg::election(): the empty ballot
election == Election([i \in Members |-> FALSE])

ConfirmToggle(i, a) == [type |-> "ConfirmToggle", id |-> i, active |-> a]
SimElectionResult(i) == [type |-> "SimElectionResult", id |-> i]

\* No send pending.
NoSend == [to |-> SIM, msg |-> Pong, k |-> "none"]

Pending(t, m, k) == [to |-> t, msg |-> m, k |-> k]

\* let next_id = if i == RING_SIZE - 1 { 0 } else { i + 1 }
next_id(i) == IF i = RING_SIZE - 1 THEN 0 ELSE i + 1

\* The candidates taken in the opposite order (mutant of range).
range_backwards(id) ==
    [k \in 1 .. (RING_SIZE - 1) |->
        IF id - k >= 0 THEN id - k ELSE id - k + RING_SIZE]

\* (0..RING_SIZE).skip(self.id + 1).chain(0..self.id)
range(id) ==
    [k \in 1 .. (RING_SIZE - 1) |->
        IF id + k <= RING_SIZE - 1 THEN id + k ELSE id + k - RING_SIZE]

Min(S) == CHOOSE x \in S : \A y \in S : x <= y

Max(S) == CHOOSE x \in S : \A y \in S : x >= y

\* The highest marked id wins (mutant of winner_id).
winner_id_max(body) == Max({i \in Members : body[i]})

\* body.iter().enumerate().filter(|(_, b)| **b).map(|(i, _)| i).min().unwrap()
winner_id(body) == Min({i \in Members : body[i]})

Top(s) == s[Len(s)]
Pop(s) == SubSeq(s, 1, Len(s) - 1)

\* A frame of stk: a call of send.  kind tells which call site of vote made
\* it: "relay" is line 190 (the error is propagated with ?), "vote" is line
\* 203 (the error is caught and the member announces a winner).
Frame(kind, body) == [kind |-> kind, body |-> body, i |-> 1]

\* Room in the buffer of destination t.
Room(t) == IF t = SIM THEN sim_chan = <<>> ELSE chan[t] = <<>>

Scenarios == UNION {[1 .. n -> Members] : n \in 0 .. MaxToggles}

Init ==
    /\ sim_active = [m \in Members |-> TRUE]
    /\ coord_id = [m \in Members |-> 0]
    /\ chan = [m \in Members |-> <<>>]
    /\ sim_chan = <<>>
    /\ pc = [m \in Members |-> "recv"]
    /\ out = [m \in Members |-> NoSend]
    /\ stk = [m \in Members |-> <<>>]
    /\ seq \in Scenarios
    /\ dpc = IF seq = <<>> THEN "end" ELSE "sleep"
    /\ di = 1
    /\ dcoord = 0
    /\ ended = [m \in Members |-> 0]
    /\ elections = 0
    /\ sender = [m \in Members |-> SIM]

(***************************************************************************)
(* Member steps.                                                           *)
(***************************************************************************)
\* self.r.recv() in run, self.r.recv_timeout(..) returning Ok in send:
\* member m takes a message of the given type out of its inbox.
Take(m, type) ==
    /\ pc[m] = "recv"
    /\ chan[m] # <<>>
    /\ chan[m][1].type = type
    /\ chan' = [chan EXCEPT ![m] = <<>>]

\* The member starts the blocking send of msg to t, to continue at k.
StartSend(m, t, msg, k) ==
    /\ pc' = [pc EXCEPT ![m] = "send"]
    /\ out' = [out EXCEPT ![m] = Pending(t, msg, k)]

\* An inactive member answers the ping too (mutant of RecvPing).
RecvPing_always(m) ==
    /\ Take(m, "Ping")
    /\ StartSend(m, chan[m][1].s_id, Pong, "pong")
    /\ UNCHANGED <<sim_active, coord_id, sim_chan, stk, ended>>
    /\ UNCHANGED <<sender, driverVars>>

\* handle_msg, Msg::Ping
RecvPing(m) ==
    /\ Take(m, "Ping")
    /\ IF ~sim_active[m]
         THEN UNCHANGED <<pc, out>>
         ELSE StartSend(m, chan[m][1].s_id, Pong, "pong")
    /\ UNCHANGED <<sim_active, coord_id, sim_chan, stk, ended>>
    /\ UNCHANGED <<sender, driverVars>>

\* Msg::Pong: in the run loop handle_msg ignores it; in the probe loop
\* (line 287) the payload goes to the candidate being probed.
RecvPong(m) ==
    /\ Take(m, "Pong")
    /\ IF stk[m] = <<>>
         THEN UNCHANGED <<pc, out>>
         ELSE StartSend(m, range(m)[Top(stk[m]).i],
                        Election(Top(stk[m]).body), "fwd")
    /\ UNCHANGED <<sim_active, coord_id, sim_chan, stk, ended>>
    /\ UNCHANGED <<sender, driverVars>>

\* The probe starts: push the call of send and ping the first candidate.
StartProbe(m, kind, body) ==
    /\ stk' = [stk EXCEPT ![m] = Append(@, Frame(kind, body))]
    /\ StartSend(m, range(m)[1], Ping(m), "ping")

\* vote: the winner is announced along the fixed successor.
Announce(m, body) ==
    StartSend(m, next_id(m), ElectionResult(winner_id(body)), "result")

\* The member votes on a fresh ballot that holds its own bit only (mutant of
\* vote).
vote_fresh(m, body) ==
    IF ~sim_active[m] /\ body = [i \in Members |-> FALSE]
      THEN StartProbe(m, "relay", body)
      ELSE IF ~body[m]
        THEN StartProbe(m, "vote", [i \in Members |-> i = m])
        ELSE Announce(m, body) /\ UNCHANGED stk

\* The member announces as soon as it has marked itself, without sending the
\* ballot on (mutant of vote).
vote_eager(m, body) ==
    IF ~sim_active[m] /\ body = [i \in Members |-> FALSE]
      THEN StartProbe(m, "relay", body)
      ELSE IF ~body[m]
        THEN Announce(m, [body EXCEPT ![m] = TRUE]) /\ UNCHANGED stk
        ELSE Announce(m, body) /\ UNCHANGED stk

\* handle_msg, Msg::Election -> vote
vote(m, body) ==
    IF ~sim_active[m] /\ body = [i \in Members |-> FALSE]
      THEN StartProbe(m, "relay", body)
      ELSE IF ~body[m]
        THEN StartProbe(m, "vote", [body EXCEPT ![m] = TRUE])
        ELSE Announce(m, body) /\ UNCHANGED stk

RecvElection(m) ==
    /\ Take(m, "Election")
    /\ vote(m, chan[m][1].body)
    /\ UNCHANGED <<sim_active, coord_id, sim_chan, ended>>
    /\ UNCHANGED <<sender, driverVars>>

\* The result is relayed and never reported (mutant of update_coord).
update_coord_relay(m, id) ==
    StartSend(m, next_id(m), ElectionResult(id), "coord")

\* handle_msg, Msg::ElectionResult -> update_coord, up to its send
update_coord(m, id) ==
    IF coord_id[m] = id
      THEN StartSend(m, SIM, SimElectionResult(id), "report")
      ELSE StartSend(m, next_id(m), ElectionResult(id), "coord")

RecvElectionResult(m) ==
    /\ Take(m, "ElectionResult")
    /\ update_coord(m, chan[m][1].id)
    /\ UNCHANGED <<sim_active, coord_id, sim_chan, stk, ended>>
    /\ UNCHANGED <<sender, driverVars>>

\* Every member the toggle passes flips (mutant of toggle).
toggle_all(m, id) ==
    /\ sim_active' = [sim_active EXCEPT ![m] = ~@]
    /\ IF id # m
         THEN StartSend(m, next_id(m), SimToggle(id), "toggle_fwd")
         ELSE StartSend(m, SIM, ConfirmToggle(m, ~sim_active[m]), "confirm")

\* handle_msg, Msg::SimToggle -> toggle
toggle(m, id) ==
    IF id # m
      THEN /\ StartSend(m, next_id(m), SimToggle(id), "toggle_fwd")
           /\ UNCHANGED sim_active
      ELSE /\ sim_active' = [sim_active EXCEPT ![m] = ~@]
           /\ StartSend(m, SIM, ConfirmToggle(m, ~sim_active[m]), "confirm")

RecvSimToggle(m) ==
    /\ Take(m, "SimToggle")
    /\ toggle(m, chan[m][1].id)
    /\ UNCHANGED <<coord_id, sim_chan, stk, ended>>
    /\ UNCHANGED <<sender, driverVars>>

\* handle_msg, Msg::SimEnd
RecvSimEnd(m) ==
    /\ Take(m, "SimEnd")
    /\ StartSend(m, next_id(m), SimEnd, "end")
    /\ UNCHANGED <<sim_active, coord_id, sim_chan, stk, ended>>
    /\ UNCHANGED <<sender, driverVars>>

\* The message of the pending send of m goes into the destination buffer.
Deliver(m) ==
    IF out[m].to = SIM
      THEN /\ sim_chan' = <<out[m].msg>>
           /\ UNCHANGED <<chan, sender>>
      ELSE /\ chan' = [chan EXCEPT ![out[m].to] = <<out[m].msg>>]
           /\ sender' = [sender EXCEPT ![out[m].to] = m]
           /\ UNCHANGED sim_chan

\* The member goes on receiving after SimEnd (mutant of AfterEnd).
AfterEnd_stay(m) == "recv"

\* Where the member goes once handle_msg has returned Ok(false) for SimEnd:
\* run leaves its loop; the probe loop (line 293) drops the value and goes on.
AfterEnd(m) == IF stk[m] = <<>> THEN "done" ELSE "recv"

\* The probe goes on after its payload is forwarded (mutant of AfterForward).
AfterForward_stay(s) == s

\* send, line 290: return Ok(()) once the payload is forwarded; the call of
\* send is over.
AfterForward(s) == Pop(s)

\* A blocked send completes, and the member runs on to its next blocking
\* call.
CompleteSend(m) ==
    /\ pc[m] = "send"
    /\ Room(out[m].to)
    /\ Deliver(m)
    /\ CASE out[m].k = "fwd" ->
              \* send returns Ok: the probe is over
              /\ stk' = [stk EXCEPT ![m] = AfterForward(@)]
              /\ pc' = [pc EXCEPT ![m] = "recv"]
              /\ out' = [out EXCEPT ![m] = NoSend]
              /\ UNCHANGED ended
         [] out[m].k = "coord" ->
              \* update_coord: self.coord_id = id comes after the send
              /\ pc' = [pc EXCEPT ![m] = "store"]
              /\ UNCHANGED <<out, stk, ended>>
         [] out[m].k = "end" ->
              /\ pc' = [pc EXCEPT ![m] = AfterEnd(m)]
              /\ out' = [out EXCEPT ![m] = NoSend]
              /\ ended' = [ended EXCEPT ![m] = @ + 1]
              /\ UNCHANGED stk
         [] OTHER ->
              /\ pc' = [pc EXCEPT ![m] = "recv"]
              /\ out' = [out EXCEPT ![m] = NoSend]
              /\ UNCHANGED <<stk, ended>>
    /\ UNCHANGED <<sim_active, coord_id>>
    /\ UNCHANGED driverVars

\* update_coord, line 236: self.coord_id = id
StoreCoord(m) ==
    /\ pc[m] = "store"
    /\ coord_id' = [coord_id EXCEPT ![m] = out[m].msg.id]
    /\ pc' = [pc EXCEPT ![m] = "recv"]
    /\ out' = [out EXCEPT ![m] = NoSend]
    /\ UNCHANGED <<sim_active, chan, sim_chan, stk, ended>>
    /\ UNCHANGED <<sender, driverVars>>

\* send has run out of candidates and bails.  The error leaves every probe
\* that was entered through line 190 (vote returns it with ?, and so does
\* the probe loop around it at line 293) until a probe entered through line
\* 203 catches it; with none, run returns the error and the thread ends.
RECURSIVE Unwind(_)
Unwind(s) ==
    IF s = <<>> THEN [stk |-> <<>>, caught |-> FALSE, body |-> <<>>]
    ELSE IF Top(s).kind = "vote"
      THEN [stk |-> Pop(s), caught |-> TRUE, body |-> Top(s).body]
      ELSE Unwind(Pop(s))

\* recv_timeout returns Err: the candidate is taken to be inactive.
ProbeTimeout(m) ==
    /\ pc[m] = "recv"
    /\ stk[m] # <<>>
    /\ chan[m] = <<>>
    /\ IF Top(stk[m]).i < RING_SIZE - 1
         THEN /\ stk' = [stk EXCEPT ![m][Len(stk[m])].i = @ + 1]
              /\ StartSend(m, range(m)[Top(stk[m]).i + 1], Ping(m), "ping")
         ELSE LET u == Unwind(stk[m]) IN
              /\ stk' = [stk EXCEPT ![m] = u.stk]
              /\ IF u.caught
                   THEN Announce(m, u.body)
                   ELSE /\ pc' = [pc EXCEPT ![m] = "failed"]
                        /\ UNCHANGED out
    /\ UNCHANGED <<sim_active, coord_id, chan, sim_chan, ended>>
    /\ UNCHANGED <<sender, driverVars>>

(***************************************************************************)
(* sim_election                                                            *)
(***************************************************************************)
memberVars == <<sim_active, coord_id, pc, out, stk, ended>>

\* The for loop goes to its next entry, or past the loop.
NextEntry ==
    /\ di' = di + 1
    /\ dpc' = IF di + 1 > Len(seq) THEN "end" ELSE "sleep"

\* std::thread::sleep(..)
DriverSleep ==
    /\ dpc = "sleep"
    /\ dpc' = "toggle"
    /\ UNCHANGED <<chan, sim_chan, seq, di, dcoord, elections>>
    /\ UNCHANGED memberVars
    /\ UNCHANGED sender

\* first_s.send(Msg::SimToggle { id: *id })
DriverSendToggle ==
    /\ dpc = "toggle"
    /\ chan[0] = <<>>
    /\ chan' = [chan EXCEPT ![0] = <<SimToggle(seq[di])>>]
    /\ dpc' = "confirm"
    /\ UNCHANGED <<sim_chan, seq, di, dcoord, elections>>
    /\ UNCHANGED memberVars
    /\ sender' = [sender EXCEPT ![0] = SIM]

\* The driver starts an election whenever the toggled member went inactive,
\* coordinator or not (mutant of DriverRecvConfirm).
DriverRecvConfirm_any ==
    /\ dpc = "confirm"
    /\ sim_chan # <<>>
    /\ sim_chan' = <<>>
    /\ LET msg == sim_chan[1] IN
       IF msg.type = "ConfirmToggle" /\ ~msg.active
         THEN dpc' = "elect" /\ UNCHANGED di
         ELSE NextEntry
    /\ UNCHANGED <<chan, seq, dcoord, elections>>
    /\ UNCHANGED memberVars
    /\ UNCHANGED sender

\* let msg = sim_r.recv()?; if let SimMsg::ConfirmToggle ..
DriverRecvConfirm ==
    /\ dpc = "confirm"
    /\ sim_chan # <<>>
    /\ sim_chan' = <<>>
    /\ LET msg == sim_chan[1] IN
       IF msg.type = "ConfirmToggle" /\ msg.id = dcoord /\ ~msg.active
         THEN dpc' = "elect" /\ UNCHANGED di
         ELSE NextEntry
    /\ UNCHANGED <<chan, seq, dcoord, elections>>
    /\ UNCHANGED memberVars
    /\ UNCHANGED sender

\* first_s.send(Msg::election())
DriverSendElection ==
    /\ dpc = "elect"
    /\ chan[0] = <<>>
    /\ chan' = [chan EXCEPT ![0] = <<election>>]
    /\ dpc' = "result"
    /\ elections' = elections + 1
    /\ UNCHANGED <<sim_chan, seq, di, dcoord>>
    /\ UNCHANGED memberVars
    /\ sender' = [sender EXCEPT ![0] = SIM]

\* let msg = sim_r.recv()?; if let SimMsg::ElectionResult ..
DriverRecvResult ==
    /\ dpc = "result"
    /\ sim_chan # <<>>
    /\ sim_chan' = <<>>
    /\ LET msg == sim_chan[1] IN
       IF msg.type = "SimElectionResult"
         THEN dcoord' = msg.id
         ELSE UNCHANGED dcoord
    /\ NextEntry
    /\ UNCHANGED <<chan, seq, elections>>
    /\ UNCHANGED memberVars
    /\ UNCHANGED sender

\* first_s.send(Msg::SimEnd)
DriverSendEnd ==
    /\ dpc = "end"
    /\ chan[0] = <<>>
    /\ chan' = [chan EXCEPT ![0] = <<SimEnd>>]
    /\ dpc' = "done"
    /\ UNCHANGED <<sim_chan, seq, di, dcoord, elections>>
    /\ UNCHANGED memberVars
    /\ sender' = [sender EXCEPT ![0] = SIM]

(***************************************************************************)
(* Specifications.                                                         *)
(***************************************************************************)
MemberStep(m) ==
    \/ RecvPing(m)
    \/ RecvPong(m)
    \/ RecvElection(m)
    \/ RecvElectionResult(m)
    \/ RecvSimToggle(m)
    \/ RecvSimEnd(m)
    \/ CompleteSend(m)
    \/ StoreCoord(m)

DriverStep ==
    \/ DriverSleep
    \/ DriverSendToggle
    \/ DriverRecvConfirm
    \/ DriverSendElection
    \/ DriverRecvResult
    \/ DriverSendEnd

\* Some thread can take a step that does not wait for a timer.
Busy ==
    \/ \E m \in Members :
         \/ pc[m] = "recv" /\ chan[m] # <<>>
         \/ pc[m] = "send" /\ Room(out[m].to)
         \/ pc[m] = "store"
    \/ dpc \in {"toggle", "elect", "end"} /\ chan[0] = <<>>
    \/ dpc \in {"confirm", "result"} /\ sim_chan # <<>>

\* The 1 ms of recv_timeout run out only once every thread that can move
\* has moved: a hand-over between threads is far shorter than the timeout.
TimelyTimeout(m) == ~Busy /\ ProbeTimeout(m)

Next ==
    \/ \E m \in Members : MemberStep(m)
    \/ \E m \in Members : TimelyTimeout(m)
    \/ DriverStep

Spec == Init /\ [][Next]_vars

\* The timer may run out at any moment the inbox is empty.
NextAsync ==
    \/ \E m \in Members : MemberStep(m)
    \/ \E m \in Members : ProbeTimeout(m)
    \/ DriverStep

SpecAsync == Init /\ [][NextAsync]_vars

\* Every thread that can move does move: the member and driver threads are
\* operating-system threads, and a timer that can run out does.
Fairness ==
    /\ \A m \in Members : WF_vars(MemberStep(m) \/ TimelyTimeout(m))
    /\ WF_vars(DriverStep)

SpecFair == Spec /\ Fairness

(***************************************************************************)
(* Vocabulary of the properties.                                           *)
(***************************************************************************)
Active == {i \in Members : sim_active[i]}

AllDone == dpc = "done" /\ \A m \in Members : pc[m] = "done"

\* The messages of a type that are in an inbox or in a blocked send.
InFlight(type) ==
    {chan[m][1] : m \in {j \in Members : chan[j] # <<>> /\ chan[j][1].type = type}}
    \cup {out[m].msg : m \in {j \in Members : pc[j] = "send" /\ out[j].msg.type = type}}
    \cup {sim_chan[i] : i \in {j \in 1 .. Len(sim_chan) : sim_chan[j].type = type}}

\* Member m takes a message of the given type out of its inbox in this step.
Handles(m, type) ==
    /\ pc[m] = "recv"
    /\ chan[m] # <<>>
    /\ chan[m][1].type = type
    /\ chan'[m] = <<>>

\* The blocked send of m with continuation k completes in this step.
Completes(m, k) == pc[m] = "send" /\ out[m].k = k /\ pc'[m] # "send"

\* The step writes no inbox but (possibly) that of t, and not the driver's.
OnlyInbox(m, t) ==
    /\ sim_chan' = sim_chan
    /\ \A j \in Members \ {m, t} : chan'[j] = chan[j]

\* The members strictly between p and c in ring order, going on from p.
Between(p, c) ==
    {(p + k) % RING_SIZE :
        k \in 1 .. (((c - p + RING_SIZE) % RING_SIZE) - 1)}

C2_AllStoredAtReport ==
    [][(dpc = "result" /\ dpc' # "result"
            /\ sim_chan[1].type = "SimElectionResult")
        => \A m \in Members : coord_id[m] = sim_chan[1].id]_vars

(***************************************************************************)
(* C3: The run never deadlocks: as long as some thread has not terminated, *)
(* some thread can take a step.                                            *)
(***************************************************************************)
C3_NoDeadlock == AllDone \/ ENABLED Next

C6_PingFrame ==
    /\ [][\A m \in Members : Handles(m, "Ping") =>
            /\ sim_active' = sim_active
            /\ coord_id' = coord_id
            /\ stk' = stk
            /\ OnlyInbox(m, m)
            /\ IF sim_active[m]
                 THEN /\ pc'[m] = "send"
                      /\ out'[m].to = chan[m][1].s_id
                      /\ out'[m].msg.type = "Pong"
                      /\ out'[m].k = "pong"
                 ELSE pc'[m] = "recv" /\ out'[m] = out[m]]_vars
    /\ [][\A m \in Members : Completes(m, "pong") =>
            /\ chan'[out[m].to] = <<Pong>>
            /\ OnlyInbox(m, out[m].to)
            /\ pc'[m] = "recv"
            /\ sim_active[m]
            /\ UNCHANGED <<sim_active, coord_id, stk>>]_vars

\* A prober waits for a candidate that is inactive and has taken the ping
\* out of its inbox without an answer.
C6_Witness ==
    \E p \in Members :
        /\ pc[p] = "recv"
        /\ stk[p] # <<>>
        /\ chan[p] = <<>>
        /\ LET c == range(p)[Top(stk[p]).i] IN
           /\ ~sim_active[c]
           /\ pc[c] = "recv"
           /\ chan[c] = <<>>

(***************************************************************************)
(* C7: Handling ElectionResult{id}, a member whose coord_id is id sends    *)
(* one SimMsg::ElectionResult{id} to the driver, nothing to a member, and  *)
(* keeps coord_id and active; a member whose coord_id differs sends        *)
(* ElectionResult{id} to its fixed successor only, nothing to the driver,  *)
(* and has coord_id = id when the handler returns.                         *)
(***************************************************************************)
C7_UpdateCoordFrame ==
    /\ [][\A m \in Members : Handles(m, "ElectionResult") =>
            LET id == chan[m][1].id IN
            /\ UNCHANGED <<sim_active, coord_id, stk>>
            /\ OnlyInbox(m, m)
            /\ pc'[m] = "send"
            /\ out'[m].msg.id = id
            /\ IF coord_id[m] = id
                 THEN /\ out'[m].to = SIM
                      /\ out'[m].msg.type = "SimElectionResult"
                      /\ out'[m].k = "report"
                 ELSE /\ out'[m].to = next_id(m)
                      /\ out'[m].msg.type = "ElectionResult"
                      /\ out'[m].k = "coord"]_vars
    /\ [][\A m \in Members : Completes(m, "report") =>
            /\ sim_chan' = <<out[m].msg>>
            /\ chan' = chan
            /\ pc'[m] = "recv"
            /\ UNCHANGED <<sim_active, coord_id, stk>>]_vars
    /\ [][\A m \in Members : Completes(m, "coord") =>
            /\ chan'[next_id(m)] = <<out[m].msg>>
            /\ OnlyInbox(m, next_id(m))
            /\ pc'[m] = "store"
            /\ out'[m] = out[m]
            /\ UNCHANGED <<sim_active, coord_id, stk>>]_vars
    /\ [][\A m \in Members : (pc[m] = "store" /\ pc'[m] # "store") =>
            /\ coord_id' = [coord_id EXCEPT ![m] = out[m].msg.id]
            /\ pc'[m] = "recv"
            /\ UNCHANGED <<sim_active, chan, sim_chan, stk>>]_vars

\* One member reports to the driver while another has relayed the same
\* result and stored it.
C7_Witness ==
    \E m, n \in Members :
        /\ pc[m] = "send"
        /\ out[m].k = "report"
        /\ n # m
        /\ coord_id[n] = out[m].msg.id
        /\ coord_id[n] # 0

C9_ProbeFailureSurvived == \A m \in Members : pc[m] # "failed"

(***************************************************************************)
(* C10: In the scenario toggles = [0], at the step in which the driver     *)
(* sends SimEnd it has sent exactly one empty ballot, its coord_id is 1    *)
(* and every member's coord_id is 1.                                       *)
(***************************************************************************)
C10_ScenarioToggleZero ==
    [][(seq = <<0>> /\ dpc = "end" /\ dpc' = "done") =>
        /\ elections = 1
        /\ dcoord = 1
        /\ \A m \in Members : coord_id[m] = 1]_vars

(***************************************************************************)
(* C11: the driver sends the empty ballot iff the ConfirmToggle it has     *)
(* just received names its own coord_id and says inactive; from then on it *)
(* sends neither SimToggle nor SimEnd until it has received a              *)
(* SimMsg::ElectionResult, whose id it stores in coord_id; its coord_id    *)
(* changes in no other step.                                               *)
(***************************************************************************)
DriverMoves == dpc' # dpc

DriverSends(type) ==
    /\ DriverMoves
    /\ chan[0] = <<>>
    /\ chan'[0] # <<>>
    /\ chan'[0][1].type = type

C11_DriverElection ==
    /\ [][(dpc = "confirm" /\ DriverMoves) =>
            ((dpc' = "elect") <=>
                (/\ sim_chan[1].type = "ConfirmToggle"
                 /\ sim_chan[1].id = dcoord
                 /\ ~sim_chan[1].active))]_vars
    /\ [][(dpc' = "elect" /\ DriverMoves) => dpc = "confirm"]_vars
    /\ [][DriverSends("Election") <=> (dpc = "elect" /\ DriverMoves)]_vars
    /\ [][DriverSends("Election") => chan'[0] = <<election>>]_vars
    /\ [][(dpc \in {"elect", "result"} /\ DriverMoves) =>
            /\ ~DriverSends("SimToggle")
            /\ ~DriverSends("SimEnd")
            /\ dpc = "elect" => dpc' = "result"
            /\ dpc = "result" =>
                  /\ sim_chan # <<>>
                  /\ sim_chan[1].type = "SimElectionResult"
                  /\ dcoord' = sim_chan[1].id]_vars
    /\ [][dcoord' # dcoord => (dpc = "result" /\ DriverMoves)]_vars

\* The driver has run an election and taken member 1 for coordinator.
C11_Witness == elections = 1 /\ dcoord = 1 /\ dpc = "sleep"

(***************************************************************************)
(* C12: ballots are monotone.  The ballot a member starts to forward has   *)
(* every bit of the ballot it received, and differs from it in the         *)
(* member's own bit at most; every Election message a member sends is the  *)
(* payload of its probe, which does not change while the probe lasts; and  *)
(* the message arrives as it was sent.                                     *)
(***************************************************************************)
C12_BallotMonotone ==
    /\ [][\A m \in Members : Handles(m, "Election") =>
            LET b == chan[m][1].body IN
            \/ stk'[m] = stk[m]
            \/ /\ Len(stk'[m]) = Len(stk[m]) + 1
               /\ \A i \in Members : b[i] => Top(stk'[m]).body[i]
               /\ \A i \in Members \ {m} : Top(stk'[m]).body[i] = b[i]]_vars
    /\ [][\A m \in Members :
            (out'[m] # out[m] /\ out'[m].msg.type = "Election") =>
                /\ stk[m] # <<>>
                /\ out'[m].msg.body = Top(stk[m]).body]_vars
    /\ [][\A m \in Members : \A k \in 1 .. Len(stk[m]) :
            k <= Len(stk'[m]) => stk'[m][k].body = stk[m][k].body]_vars
    /\ [][\A m \in Members : Completes(m, "fwd") =>
            chan'[out[m].to] = <<out[m].msg>>]_vars

\* A member forwards a ballot that holds its own bit and another member's.
C12_Witness ==
    \E m \in Members :
        /\ pc[m] = "send"
        /\ out[m].k = "fwd"
        /\ out[m].msg.body[m]
        /\ \E i \in Members \ {m} : out[m].msg.body[i]

(***************************************************************************)
(* C13: the member that first sends ElectionResult does so only on         *)
(* handling a ballot that arrived with its own bit set; a member that      *)
(* handles a ballot without its own bit forwards it through the probe and  *)
(* does not announce while it handles that ballot.                         *)
(***************************************************************************)
Announces(m) == out[m].k # "result" /\ out'[m].k = "result"

\* The last candidate of the probe of a marked ballot has not answered.
VoteProbeFails(m) ==
    /\ pc[m] = "recv"
    /\ chan[m] = <<>>
    /\ stk[m] # <<>>
    /\ Top(stk[m]).i = RING_SIZE - 1
    /\ Top(stk[m]).kind = "vote"

ForwardsUnmarked(m) ==
    (Handles(m, "Election") /\ ~chan[m][1].body[m]) =>
        /\ ~Announces(m)
        /\ Len(stk'[m]) = Len(stk[m]) + 1
        /\ pc'[m] = "send"
        /\ out'[m].msg = Ping(m)

C13_AnnounceOnOwnBit ==
    /\ [][\A m \in Members : Announces(m) =>
            (Handles(m, "Election") /\ chan[m][1].body[m])]_vars
    /\ [][\A m \in Members : ForwardsUnmarked(m)]_vars

(***************************************************************************)
(* C13, amended: the announcer announces either on handling a ballot that  *)
(* arrived with its own bit set, or when the probe that forwards the       *)
(* ballot it has just marked fails, no candidate having answered; the      *)
(* announced id is the lowest marked id of that ballot.  A member that     *)
(* handles a ballot without its own bit starts the probe and does not      *)
(* announce before that probe has failed.                                  *)
(***************************************************************************)
C13_AnnounceOnOwnBitOrFailure ==
    /\ [][\A m \in Members : Announces(m) =>
            \/ /\ Handles(m, "Election")
               /\ chan[m][1].body[m]
               /\ out'[m].msg.id = Min({i \in Members : chan[m][1].body[i]})
            \/ /\ VoteProbeFails(m)
               /\ Top(stk[m]).body[m]
               /\ out'[m].msg.id =
                      Min({i \in Members : Top(stk[m]).body[i]})
               /\ stk'[m] = Pop(stk[m])]_vars
    /\ [][\A m \in Members : ForwardsUnmarked(m)]_vars

\* The only active member announces: nobody answered its probe.
C13_Witness ==
    \E m \in Members :
        /\ Active = {m}
        /\ pc[m] = "send"
        /\ out[m].k = "result"
        /\ out[m].msg.id = m

(***************************************************************************)
(* C14: an inactive member never marks itself.  The ballot an inactive     *)
(* member sends on is the ballot it received, bit for bit, and an empty    *)
(* ballot handled by an inactive member goes on, still empty, through the  *)
(* probe.                                                                  *)
(***************************************************************************)
C14_InactiveNeverMarks ==
    [][\A m \in Members : (Handles(m, "Election") /\ ~sim_active[m]) =>
        LET b == chan[m][1].body IN
        /\ stk'[m] # stk[m] => Top(stk'[m]).body = b
        /\ b = [i \in Members |-> FALSE] =>
              /\ stk'[m] = Append(stk[m], Frame("relay", b))
              /\ out'[m].msg = Ping(m)]_vars

(***************************************************************************)
(* C16: probe nesting is bounded.  No member starts a probe while one of   *)
(* its own probes is in progress: at most one call of send is in progress  *)
(* per member in every reachable state.                                    *)
(***************************************************************************)
C16_OneProbe == \A m \in Members : Len(stk[m]) <= 1

\* A member is in a probe during the second election of the run and waits
\* for the Pong of its second candidate.
C16_Witness ==
    /\ elections = 2
    /\ \E m \in Members :
        /\ Len(stk[m]) = 1
        /\ pc[m] = "recv"
        /\ Top(stk[m]).i = 2

(***************************************************************************)
(* C17: a member that handles SimEnd relays it to its fixed successor      *)
(* exactly once and then takes no further message from its inbox, wherever *)
(* SimEnd is received.  SimEnd is only ever received by the receive of the *)
(* run loop: no probe of the member is in progress when SimEnd is in its   *)
(* inbox or on its way out.                                                *)
(***************************************************************************)
C17_EndTerminates ==
    /\ [][\A m \in Members : Handles(m, "SimEnd") =>
            /\ pc'[m] = "send"
            /\ out'[m] = Pending(next_id(m), SimEnd, "end")]_vars
    /\ [][\A m \in Members : Completes(m, "end") =>
            /\ chan'[next_id(m)] = <<SimEnd>>
            /\ pc'[m] = "done"
            /\ ended'[m] = 1]_vars
    /\ [][\A m \in Members : pc[m] = "done" =>
            /\ pc'[m] = "done"
            /\ chan[m] # <<>> => chan'[m] = chan[m]
            /\ out'[m] = out[m]
            /\ ended'[m] = ended[m]]_vars
    /\ [](\A m \in Members :
            (\/ chan[m] # <<>> /\ chan[m][1].type = "SimEnd"
             \/ pc[m] = "send" /\ out[m].k = "end") => stk[m] = <<>>)

\* Member 1 has relayed SimEnd and terminated with its successor's relay of
\* SimEnd in flight to member 0.
C17_Witness ==
    /\ pc[1] = "done"
    /\ ended[1] = 1
    /\ pc[2] = "send"
    /\ out[2].k = "end"

(***************************************************************************)
(* C18: the driver/member handshake is one-for-one.  Each SimToggle the    *)
(* driver sends causes exactly one ConfirmToggle to be sent to it and each *)
(* election exactly one SimMsg::ElectionResult; the driver never receives  *)
(* a SimMsg of the kind it is not waiting for, and no SimMsg is left       *)
(* unreceived when it sends SimEnd.                                        *)
(***************************************************************************)
\* The SimMsg s that are in the driver's inbox or in a blocked send to it.
SimCarriers ==
    Len(sim_chan) +
    Cardinality({m \in Members : pc[m] = "send" /\ out[m].to = SIM})

C18_HandshakeSafe ==
    /\ SimCarriers <= 1
    /\ dpc \notin {"confirm", "result"} => SimCarriers = 0
    /\ dpc = "confirm" => InFlight("SimElectionResult") = {}
    /\ dpc = "result" => InFlight("ConfirmToggle") = {}

C18_HandshakeOneForOne ==
    /\ []C18_HandshakeSafe
    /\ (dpc = "confirm") ~>
          (sim_chan # <<>> /\ sim_chan[1].type = "ConfirmToggle")
    /\ (dpc = "result") ~>
          (sim_chan # <<>> /\ sim_chan[1].type = "SimElectionResult")

(***************************************************************************)
(* C19: every Pong a probing member accepts as the answer of candidate c   *)
(* was sent by c: a Pong of an earlier candidate that arrives after that   *)
(* candidate's timeout is never taken for the answer of a later one, so    *)
(* the payload is forwarded only to a member that answered.                *)
(***************************************************************************)
Candidate(p) == range(p)[Top(stk[p]).i]

C19_PongFromCandidate ==
    [][\A p \in Members : (Handles(p, "Pong") /\ stk[p] # <<>>) =>
          /\ sender[p] = Candidate(p)
          /\ out'[p].to = sender[p]]_vars

(***************************************************************************)
(* C20: whenever the driver is not in the middle of an election, that is   *)
(* in every step in which it sends a SimToggle or SimEnd, the member whose *)
(* id is the driver's coord_id is active and every member's coord_id       *)
(* equals the driver's.                                                    *)
(***************************************************************************)
C20_CoordinatorAgreed ==
    [][(DriverSends("SimToggle") \/ DriverSends("SimEnd")) =>
          /\ sim_active[dcoord]
          /\ \A m \in Members : coord_id[m] = dcoord]_vars

====
